---- MODULE Spec2Model ----
(***************************************************************************)
(* A model of ChainingHashMap (src/src/chaining_map.rs): a separate-       *)
(* chaining hash table with load-factor-triggered doubling.                *)
(*                                                                         *)
(* The table is the pair (backing, load) plus the immutable hash_builder.  *)
(* Every public method is one action; the private resize is part of the    *)
(* insert that calls it.  The variables op, arg_key, arg_val, result,      *)
(* resizes and panicked record the last call and what it returned, and     *)
(* written is the abstract key -> value map the table is compared with.    *)
(*                                                                         *)
(* Arithmetic.  The code compares `load as f32 / capacity as f32` with     *)
(* 0.7f32 and sizes the backing with `(capacity as f32 / 0.7f32) as        *)
(* usize`.  The model computes both in f32: integers are rounded to 24     *)
(* significant bits, quotients to the nearest f32.  Below a few hundred    *)
(* the results are those of exact arithmetic; from capacity arguments in   *)
(* the millions on they are not, which CountSpec explores.                 *)
(*                                                                         *)
(* Specifications.  Spec calls every public method on small tables;        *)
(* InsertSpec only insert; FillSpec is the fill of the tests.  CountSpec   *)
(* follows len() and capacity() of tables too large to keep slot by slot   *)
(* (variable counted), and HashSpec the hash function of the naive         *)
(* variant, src/src/naive_chaining_map.rs (variable hashed).               *)
(*                                                                         *)
(* Vec::capacity.  capacity() is self.backing.capacity(); the backing is   *)
(* built by Vec::with_capacity(n) followed by exactly n pushes and is      *)
(* never pushed to again, so its capacity is its length n.                 *)
(***************************************************************************)
EXTENDS Integers, Sequences, FiniteSets, TLC

\* Bounds of the model.
MaxKey == 2
MaxVal == 2
MaxDigest == 1
MaxCapArg == 2
MaxFill == 4
MaxStride == 3
MaxCountArg == 20
MaxCountBack == 2
MaxCountExtra == 2
MaxKeyLen == 3
MaxByte == 1
MaxSalt == 1
MaxNaiveCap == 3

\* ChainingHashMap::new() and with_hasher() pass this capacity.
DEFAULT_CAPACITY == 20

\* `let cap = 10;` of tests::insert_and_resize.
TEST_CAP == 10

Keys == 1..MaxKey
Vals == 1..MaxVal
Digests == 0..MaxDigest
CapacityArgs == (0..MaxCapArg) \cup {DEFAULT_CAPACITY}

\* The digests a hash_builder can give the keys.  The table only compares keys
\* for equality and hashes them, so every hasher is, up to renaming the keys,
\* one whose digests do not decrease along Keys.
Hashers == {h \in [Keys -> Digests] : \A j, k \in Keys : j < k => h[j] <= h[k]}

VARIABLES
    backing,       \* Vec<Option<Vec<(K, V)>>>: a sequence of slots
    load,          \* usize: the entry count len() returns
    hash_builder,  \* S: the digest each key is given by this instance
    written,       \* abstract map: the value last written for a key, 0 when absent
    op,            \* the last public call
    arg_key,       \* its key argument (0 when it has none)
    arg_val,       \* its value argument (0 when it has none)
    result,        \* what it returned
    resizes,       \* how many times resize ran inside it
    pre_load,      \* len() when it was called
    panicked,      \* TRUE once a call has panicked
    counted,       \* CountSpec: the counters of a table whose slots are not kept
    hashed         \* HashSpec: a call of the naive variant's hash or get_index

vars == <<backing, load, hash_builder, written, op, arg_key, arg_val, result,
          resizes, pre_load, panicked, counted, hashed>>

-----------------------------------------------------------------------------
\* Option<..> values.  An Option<V> carries key 0; an Option<(K, V)> the key.

None == [some |-> FALSE, key |-> 0, val |-> 0]

Some(value) == [some |-> TRUE, key |-> 0, val |-> value]

SomeEntry(key, value) == [some |-> TRUE, key |-> key, val |-> value]

\* The call did not return: the thread panicked.
Panic == [some |-> FALSE, key |-> -1, val |-> -1]

\* A slot of the backing: None, or Some(vec) with vec a sequence of <<key, value>>.
NoneSlot == [present |-> FALSE, vec |-> <<>>]

SomeSlot(vec) == [present |-> TRUE, vec |-> vec]

-----------------------------------------------------------------------------
\* f32, as far as the table uses it: `usize as f32`, f32 / f32, f32 > f32 and
\* `f32 as usize`, on values that are zero or positive and finite.  A positive
\* value is m * 2^e with a 24-bit significand, 2^23 <= m < 2^24; results are
\* rounded to the nearest such value, ties to the even significand, as IEEE
\* 754 division and Rust's integer-to-float cast do.

F32Zero == [m |-> 0, e |-> 0]

\* The number of bits of n, for n below 2^30.
bit_length(n) == IF n = 0 THEN 0 ELSE CHOOSE k \in 1..30 : n < 2^k

\* Rounds q, which has dropped the remainder r of a division by d, to nearest-even.
round_nearest_even(q, r, d) ==
    IF 2 * r > d \/ (2 * r = d /\ q % 2 = 1) THEN q + 1 ELSE q

\* A rounded significand may reach 2^24: it is 2^23 with the next exponent.
f32_normal(m, e) == IF m = 2^24 THEN [m |-> 2^23, e |-> e + 1] ELSE [m |-> m, e |-> e]

\* `n as f32`
usize_as_f32(n) ==
    LET k == bit_length(n)
        s == k - 24
    IN  IF n = 0 THEN F32Zero
        ELSE IF k <= 24 THEN [m |-> n * 2^(24 - k), e |-> k - 24]
        ELSE f32_normal(round_nearest_even(n \div 2^s, n % 2^s, 2^s), s)

\* Long division: [q, r] with q = (num * 2^k) \div den and r the remainder,
\* k = 23 or 24, six quotient bits at a time so that no product passes 2^31.
long_div(num, den, k) ==
    LET x1 == (num % den) * 64
        x2 == (x1 % den) * 64
        x3 == (x2 % den) * 64
        x4 == (x3 % den) * 2^(k - 18)
    IN  [q |-> ((((num \div den) * 64 + x1 \div den) * 64 + x2 \div den) * 64
                  + x3 \div den) * 2^(k - 18) + x4 \div den,
         r |-> x4 % den]

\* a / b for b positive
f32_div(a, b) ==
    LET k == IF a.m >= b.m THEN 23 ELSE 24
        d == long_div(a.m, b.m, k)
    IN  IF a.m = 0 THEN F32Zero
        ELSE f32_normal(round_nearest_even(d.q, d.r, b.m), a.e - b.e - k)

\* a > b
f32_gt(a, b) ==
    /\ a.m # 0
    /\ \/ b.m = 0
       \/ a.e > b.e
       \/ a.e = b.e /\ a.m > b.m

\* `x as usize`: the fraction is dropped
f32_as_usize(x) == IF x.e >= 0 THEN x.m * 2^(x.e) ELSE x.m \div 2^(-x.e)

\* `let load_factor = 0.7;`: the f32 nearest to 0.7, 11744051 / 2^24
load_factor == [m |-> 11744051, e |-> -24]

-----------------------------------------------------------------------------
\* make_backing_with_capacity: (capacity as f32 / 0.7) as usize slots, all None.

modified_capacity_unadjusted(n) == n

modified_capacity(n) == f32_as_usize(f32_div(usize_as_f32(n), load_factor))

make_backing_with_capacity(n) == [i \in 1..modified_capacity(n) |-> NoneSlot]

capacity(b) == Len(b)

len(l) == l

\* self.len() as f32 / self.capacity() as f32, for a capacity of 1 or more
load_ratio(l, cap) == f32_div(usize_as_f32(l), usize_as_f32(cap))

\* `self.len() as f32 / self.capacity() as f32 > self.load_factor`.  With a
\* capacity of 0 the quotient is NaN for a load of 0 (nothing is greater than
\* it) and infinite otherwise.
exceeds_load_factor_loose(l, cap) == l > cap

exceeds_load_factor_nonempty(l, cap) == l > 0

exceeds_load_factor(l, cap) ==
    IF cap = 0 THEN l > 0 ELSE f32_gt(load_ratio(l, cap), load_factor)

\* get_index: digest % capacity.  The remainder panics when the capacity is 0.
rem_by_zero(b) == capacity(b) = 0

get_index(b, key) == hash_builder[key] % capacity(b)

\* The first position of key in a chain (1-based), 0 when the chain lacks it.
position_head_only(vec, key) ==
    IF Len(vec) > 0 /\ vec[1][1] = key THEN 1 ELSE 0

position(vec, key) ==
    IF \E i \in 1..Len(vec) : vec[i][1] = key
    THEN CHOOSE i \in 1..Len(vec) :
            /\ vec[i][1] = key
            /\ \A j \in 1..(i - 1) : vec[j][1] # key
    ELSE 0

\* mem::replace(&mut item.1, value): the item keeps its key and gets the value.
replace_value(vec, p, value) == [vec EXCEPT ![p] = <<vec[p][1], value>>]

\* Vec::remove(internal_idx): drops one item, keeping the order of the rest.
vec_remove_last(vec, p) == SubSeq(vec, 1, Len(vec) - 1)

vec_remove(vec, p) == SubSeq(vec, 1, p - 1) \o SubSeq(vec, p + 1, Len(vec))

\* old_backing.into_iter() with the inner `for entry in vec`: every entry of
\* every present slot, slot by slot and in chain order.
RECURSIVE entries_of(_)
entries_of_heads(b) ==
    IF Len(b) = 0 THEN <<>>
    ELSE (IF Head(b).present /\ Len(Head(b).vec) > 0
          THEN <<Head(b).vec[1]>> ELSE <<>>) \o entries_of(Tail(b))

entries_of(b) ==
    IF Len(b) = 0 THEN <<>>
    ELSE (IF Head(b).present THEN Head(b).vec ELSE <<>>) \o entries_of(Tail(b))

\* The table a call works on, with what the call has done so far.
Table(b, l) == [backing |-> b, load |-> l, resizes |-> 0, result |-> None]

-----------------------------------------------------------------------------
\* insert and resize call each other.

RECURSIVE insert(_, _, _), reinsert(_, _), resize(_)

new_cap_plus_one(cap) == cap + 1

new_cap(cap) == cap * 2

resize_keep_load(t) ==
    reinsert([backing |-> [i \in 1..new_cap(capacity(t.backing)) |-> NoneSlot],
              load |-> t.load,
              resizes |-> t.resizes + 1,
              result |-> None],
             entries_of(t.backing))

resize_copy_slots(t) ==
    [t EXCEPT !.backing = t.backing \o [i \in 1..capacity(t.backing) |-> NoneSlot],
              !.resizes = t.resizes + 1]

resize(t) ==
    LET new_backing == [i \in 1..new_cap(capacity(t.backing)) |-> NoneSlot]
        old_backing == t.backing
    IN  reinsert([backing |-> new_backing,
                  load |-> 0,
                  resizes |-> t.resizes + 1,
                  result |-> None],
                 entries_of(old_backing))

\* `for entry in vec { self.insert(entry.0, entry.1); }`
reinsert(t, entries) ==
    IF Len(entries) = 0 THEN t
    ELSE reinsert(insert(t, Head(entries)[1], Head(entries)[2]), Tail(entries))

\* The None arm: a new single-entry chain.
insert_into_none(t, idx, key, value) ==
    [t EXCEPT !.backing[idx] = SomeSlot(<<<<key, value>>>>),
              !.load = t.load + 1,
              !.result = None]

\* The Some arm when the key is found at p: replace in place, return the old value.
insert_replace_returns_new(t, idx, p, value) ==
    [t EXCEPT !.backing[idx] =
                  SomeSlot(replace_value(t.backing[idx].vec, p, value)),
              !.result = Some(value)]

insert_replace(t, idx, p, value) ==
    [t EXCEPT !.backing[idx] =
                  SomeSlot(replace_value(t.backing[idx].vec, p, value)),
              !.result = Some(t.backing[idx].vec[p][2])]

\* The Some arm when the scan finds nothing: push, count.
insert_push(t, idx, key, value) ==
    [t EXCEPT !.backing[idx] = SomeSlot(Append(t.backing[idx].vec, <<key, value>>)),
              !.load = t.load + 1,
              !.result = None]

insert(t, key, value) ==
    LET t1 == IF exceeds_load_factor(len(t.load), capacity(t.backing))
              THEN resize(t) ELSE t
    IN  IF rem_by_zero(t1.backing) THEN [t1 EXCEPT !.result = Panic]
        ELSE LET idx == get_index(t1.backing, key) + 1
                 slot == t1.backing[idx]
                 p == position(slot.vec, key)
             IN  IF ~slot.present THEN insert_into_none(t1, idx, key, value)
                 ELSE IF p # 0 THEN insert_replace(t1, idx, p, value)
                 ELSE insert_push(t1, idx, key, value)

\* get: the slot of the key's index, then the first item with an equal key.
get_first_in_slot(b, key) ==
    IF rem_by_zero(b) THEN Panic
    ELSE LET slot == b[get_index(b, key) + 1]
         IN  IF ~slot.present \/ Len(slot.vec) = 0 THEN None
             ELSE Some(slot.vec[1][2])

get(b, key) ==
    IF rem_by_zero(b) THEN Panic
    ELSE LET slot == b[get_index(b, key) + 1]
             p == position(slot.vec, key)
         IN  IF ~slot.present \/ p = 0 THEN None ELSE Some(slot.vec[p][2])

\* get_mut finds what get finds; `*value = w` then stores through the reference.
get_mut(b, key) == get(b, key)

store_through_head(b, key, w) ==
    LET idx == get_index(b, key) + 1
    IN  [b EXCEPT ![idx] = SomeSlot(replace_value(b[idx].vec, 1, w))]

store_through(b, key, w) ==
    LET idx == get_index(b, key) + 1
        p == position(b[idx].vec, key)
    IN  [b EXCEPT ![idx] = SomeSlot(replace_value(b[idx].vec, p, w))]

\* remove_entry: the first index whose key matches is removed from the chain.
remove_entry_drop_empty(t, key) ==
    IF rem_by_zero(t.backing) THEN [t EXCEPT !.result = Panic]
    ELSE LET idx == get_index(t.backing, key) + 1
             slot == t.backing[idx]
             p == position(slot.vec, key)
         IN  IF ~slot.present \/ p = 0 THEN [t EXCEPT !.result = None]
             ELSE [t EXCEPT !.backing[idx] =
                                IF Len(slot.vec) = 1 THEN NoneSlot
                                ELSE SomeSlot(vec_remove(slot.vec, p)),
                            !.load = t.load - 1,
                            !.result = SomeEntry(slot.vec[p][1], slot.vec[p][2])]

remove_entry(t, key) ==
    IF rem_by_zero(t.backing) THEN [t EXCEPT !.result = Panic]
    ELSE LET idx == get_index(t.backing, key) + 1
             slot == t.backing[idx]
             p == position(slot.vec, key)
         IN  IF ~slot.present \/ p = 0 THEN [t EXCEPT !.result = None]
             ELSE [t EXCEPT !.backing[idx] = SomeSlot(vec_remove(slot.vec, p)),
                            !.load = t.load - 1,
                            !.result = SomeEntry(slot.vec[p][1], slot.vec[p][2])]

\* remove: remove_entry(key).map(|entry| entry.1)
remove(t, key) ==
    LET r == remove_entry(t, key)
    IN  IF r.result.some THEN [r EXCEPT !.result = Some(r.result.val)] ELSE r

\* clear: load = 0, every slot None.
clear_keep_load(t) ==
    [t EXCEPT !.backing = [i \in 1..Len(t.backing) |-> NoneSlot]]

clear(t) ==
    [t EXCEPT !.load = 0,
              !.backing = [i \in 1..Len(t.backing) |-> NoneSlot]]

-----------------------------------------------------------------------------
\* The state after construction: with_capacity(n) / with_capacity_and_hasher(n, s),
\* or new() / with_hasher(s), which pass DEFAULT_CAPACITY.  RandomState or the
\* caller's hasher give each key some digest, fixed for the table's lifetime.

\* No table is followed by its counters alone.
NoCount == [arg |-> 0, capacity |-> 0, load |-> 0, resized |-> 0]

\* No call of the naive variant's hash is followed.
NoHash == [stage |-> "none"]

Init ==
    /\ \E n \in CapacityArgs : backing = make_backing_with_capacity(n)
    /\ load = 0
    /\ hash_builder \in Hashers
    /\ written = [k \in Keys |-> 0]
    /\ op = "new"
    /\ arg_key = 0
    /\ arg_val = 0
    /\ result = None
    /\ resizes = 0
    /\ pre_load = 0
    /\ panicked = FALSE
    /\ counted = NoCount
    /\ hashed = NoHash

\* What every call leaves behind: the table, and the record of the call.
Returns(name, key, value, t) ==
    /\ backing' = t.backing
    /\ load' = t.load
    /\ op' = name
    /\ arg_key' = key
    /\ arg_val' = value
    /\ result' = t.result
    /\ resizes' = t.resizes
    /\ pre_load' = len(load)
    /\ panicked' = (t.result = Panic)
    /\ UNCHANGED <<hash_builder, counted, hashed>>

Insert(key, value) ==
    /\ ~panicked
    /\ LET t == insert(Table(backing, load), key, value)
       IN  /\ Returns("insert", key, value, t)
           /\ written' = IF t.result = Panic THEN written
                         ELSE [written EXCEPT ![key] = value]

Get(key) ==
    /\ ~panicked
    /\ Returns("get", key, 0, [Table(backing, load) EXCEPT !.result = get(backing, key)])
    /\ UNCHANGED written

GetMut(key) ==
    /\ ~panicked
    /\ Returns("get_mut", key, 0,
               [Table(backing, load) EXCEPT !.result = get_mut(backing, key)])
    /\ UNCHANGED written

GetMutWrite(key, w) ==
    /\ ~panicked
    /\ get_mut(backing, key).some
    /\ Returns("get_mut_write", key, w,
               [Table(store_through(backing, key, w), load)
                   EXCEPT !.result = get_mut(backing, key)])
    /\ written' = [written EXCEPT ![key] = w]

RemoveEntry(key) ==
    /\ ~panicked
    /\ LET t == remove_entry(Table(backing, load), key)
       IN  /\ Returns("remove_entry", key, 0, t)
           /\ written' = IF t.result = Panic THEN written
                         ELSE [written EXCEPT ![key] = 0]

Remove(key) ==
    /\ ~panicked
    /\ LET t == remove(Table(backing, load), key)
       IN  /\ Returns("remove", key, 0, t)
           /\ written' = IF t.result = Panic THEN written
                         ELSE [written EXCEPT ![key] = 0]

Clear ==
    /\ ~panicked
    /\ Returns("clear", 0, 0, clear(Table(backing, load)))
    /\ written' = [k \in Keys |-> 0]

Next ==
    \/ \E key \in Keys, value \in Vals : Insert(key, value)
    \/ \E key \in Keys : Get(key)
    \/ \E key \in Keys : GetMut(key)
    \/ \E key \in Keys, w \in Vals : GetMutWrite(key, w)
    \/ \E key \in Keys : RemoveEntry(key)
    \/ \E key \in Keys : Remove(key)
    \/ Clear

Spec == Init /\ [][Next]_vars

\* Only insert is called, on a table constructed with at least one slot.
InsertNext == \E key \in Keys, value \in Vals : Insert(key, value)

InsertInit == Init /\ capacity(backing) >= 1

InsertSpec == InsertInit /\ [][InsertNext]_vars

\* The tests' fill: a table constructed for n entries is given the n distinct
\* keys 0 .. n-1, key i with value i, in that order (tests::insert_and_resize,
\* tests::clear).  The digest of key k is a * k + b.
FillArgs == (1..MaxFill) \cup {TEST_CAP, DEFAULT_CAPACITY}

FillHashers(n) ==
    {[k \in 0..(n - 1) |-> a * k + b] : a \in 0..MaxStride, b \in 0..MaxStride}

FillInit ==
    /\ \E n \in FillArgs :
          /\ backing = make_backing_with_capacity(n)
          /\ hash_builder \in FillHashers(n)
    /\ load = 0
    /\ written = [k \in Keys |-> 0]
    /\ op = "new"
    /\ arg_key = 0
    /\ arg_val = 0
    /\ result = None
    /\ resizes = 0
    /\ pre_load = 0
    /\ panicked = FALSE
    /\ counted = NoCount
    /\ hashed = NoHash

\* The test's `cap`: the capacity argument, and the number of keys it inserts.
fill_cap == Cardinality(DOMAIN hash_builder)

\* `for i in 0..cap { map.insert(i.to_string(), i); }`
FillInsert ==
    /\ ~panicked
    /\ IF op = "new" THEN fill_cap > 0 ELSE arg_key + 1 < fill_cap
    /\ LET i == IF op = "new" THEN 0 ELSE arg_key + 1
       IN  Returns("insert", i, i, insert(Table(backing, load), i, i))
    /\ UNCHANGED written

FillSpec == FillInit /\ [][FillInsert]_vars

\* The same fill, and inserts of further new keys after it, for tables too
\* large to keep slot by slot.  Whether an insert of a new key resizes is
\* decided by len() and capacity() alone (line 101), so the table is followed
\* by its counters: the constructor's argument, capacity(), len() and the
\* number of resizes so far.  A resize doubles capacity() and reinserts every
\* entry, which gives len() its old value back.
CountArgs == (1..MaxCountArg) \cup {1468007, 3914685, 23488120}

\* A small fill is followed from its start, a large one from its last inserts.
CountStarts(n) ==
    IF n <= MaxCountArg THEN {0} ELSE (n - MaxCountBack)..(n - 1)

\* with_capacity(n) followed by i inserts of distinct keys, none of which
\* resized: `n as f32` and the f32 quotient never decrease when the load
\* grows, so the i tests were all false when the last of them, on a load of
\* i - 1, was.
CountInit ==
    /\ backing = <<>>
    /\ load = 0
    /\ hash_builder = [k \in Keys |-> 0]
    /\ written = [k \in Keys |-> 0]
    /\ op = "new"
    /\ arg_key = 0
    /\ arg_val = 0
    /\ result = None
    /\ resizes = 0
    /\ pre_load = 0
    /\ panicked = FALSE
    /\ hashed = NoHash
    /\ \E n \in CountArgs : \E i \in CountStarts(n) :
          /\ i > 0 => ~exceeds_load_factor(i - 1, modified_capacity(n))
          /\ counted = [arg |-> n, capacity |-> modified_capacity(n),
                        load |-> i, resized |-> 0]

\* insert of a key the table lacks: the test of line 101, resize if it is
\* true, and `self.load += 1` in the arm that stores the entry.
CountInsert ==
    /\ counted.load < counted.arg + MaxCountExtra
    /\ LET grow == exceeds_load_factor(counted.load, counted.capacity)
       IN  counted' = [arg |-> counted.arg,
                       capacity |-> IF grow THEN new_cap(counted.capacity)
                                    ELSE counted.capacity,
                       load |-> counted.load + 1,
                       resized |-> counted.resized + (IF grow THEN 1 ELSE 0)]
    /\ UNCHANGED <<backing, load, hash_builder, written, op, arg_key, arg_val,
                   result, resizes, pre_load, panicked, hashed>>

CountSpec == CountInit /\ [][CountInsert]_vars

-----------------------------------------------------------------------------
\* The naive variant (src/src/naive_chaining_map.rs): its keys are strings and
\* its digest is the function hash(key, salt), computed in usize.
\*
\* usize is 64 bits wide.  A usize is kept as four 16-bit limbs, the lowest
\* first, so that a sum that passes 2^64 is seen; `+=` that overflows panics
\* in a build with overflow checks and wraps in a build without them.

CHUNK_SIZE == 2

Limb == 2^16

USIZE_MAX == <<Limb - 1, Limb - 1, Limb - 1, Limb - 1>>

\* A number below 2^31 as a usize.
usize_of(n) == <<n % Limb, n \div Limb, 0, 0>>

\* a + b in 64 bits: the wrapped sum and the carry out of the top limb.
usize_add(a, b) ==
    LET s1 == a[1] + b[1]
        s2 == a[2] + b[2] + s1 \div Limb
        s3 == a[3] + b[3] + s2 \div Limb
        s4 == a[4] + b[4] + s3 \div Limb
    IN  [val |-> <<s1 % Limb, s2 % Limb, s3 % Limb, s4 % Limb>>,
         carry |-> s4 \div Limb]

\* a % d for d from 1 up to 2^15.
usize_rem(a, d) ==
    ((((((a[4] % d) * Limb + a[3]) % d) * Limb + a[2]) % d) * Limb + a[1]) % d

\* result += x: the new result, and whether this or an earlier sum overflowed.
add_assign(r, x) ==
    LET s == usize_add(r.val, x)
    IN  [val |-> s.val, overflowed |-> r.overflowed \/ s.carry > 0]

\* bytes.chunks(2): pieces of two bytes, the last of one when the length is odd.
RECURSIVE chunks(_, _)
chunks(bytes, size) ==
    IF Len(bytes) = 0 THEN <<>>
    ELSE IF Len(bytes) <= size THEN <<bytes>>
    ELSE <<SubSeq(bytes, 1, size)>> \o chunks(SubSeq(bytes, size + 1, Len(bytes)), size)

\* 2_usize.pow(idx)
shift_amount_index(idx) == idx

shift_amount(idx) == 2^idx

\* (*byte as usize) << n: a byte shifted by 1 or 2 keeps all its bits.
shl(byte, n) == usize_of(byte * 2^n)

\* for (idx, byte) in chunk.iter().enumerate() { result += byte << 2^idx }
RECURSIVE add_chunk(_, _, _)
add_chunk(r, chunk, idx) ==
    IF idx = Len(chunk) THEN r
    ELSE add_chunk(add_assign(r, shl(chunk[idx + 1], shift_amount(idx))), chunk, idx + 1)

\* for chunk in bytes.chunks(2)
RECURSIVE add_chunks(_, _)
add_chunks(r, cs) ==
    IF Len(cs) = 0 THEN r ELSE add_chunks(add_chunk(r, Head(cs), 0), Tail(cs))

\* hash(key, salt): result = 0, plus the salt if there is one, plus the bytes.
hash(key, salt) ==
    LET r0 == [val |-> usize_of(0), overflowed |-> FALSE]
        r1 == IF salt.some THEN add_assign(r0, salt.val) ELSE r0
    IN  add_chunks(r1, chunks(key, CHUNK_SIZE))

\* Inputs: the bytes of a key, a salt or none, the capacity of the backing
\* (with_capacity(n) of the naive variant makes exactly n slots) and the build.
Bytes == (0..MaxByte) \cup {255}

KeyBytes == UNION {[1..n -> Bytes] : n \in 0..MaxKeyLen}

Salts ==
    {[some |-> FALSE, val |-> usize_of(0)]}
        \cup {[some |-> TRUE, val |-> usize_of(v)] : v \in 0..MaxSalt}
        \cup {[some |-> TRUE, val |-> [USIZE_MAX EXCEPT ![1] = Limb - 1 - v]] :
                 v \in 0..MaxSalt}

HashInit ==
    /\ backing = <<>>
    /\ load = 0
    /\ hash_builder = [k \in Keys |-> 0]
    /\ written = [k \in Keys |-> 0]
    /\ op = "new"
    /\ arg_key = 0
    /\ arg_val = 0
    /\ result = None
    /\ resizes = 0
    /\ pre_load = 0
    /\ panicked = FALSE
    /\ counted = NoCount
    /\ \E key \in KeyBytes, salt \in Salts, cap \in 0..MaxNaiveCap,
          checks \in BOOLEAN :
          hashed = [stage |-> "input", key |-> key, salt |-> salt,
                    capacity |-> cap, overflow_checks |-> checks,
                    digest |-> usize_of(0), index |-> 0, panicked |-> FALSE]

\* A call of hash(key, salt).
Hash ==
    /\ hashed.stage = "input"
    /\ LET r == hash(hashed.key, hashed.salt)
       IN  hashed' = [hashed EXCEPT
                         !.stage = "hashed",
                         !.digest = r.val,
                         !.panicked = r.overflowed /\ hashed.overflow_checks]
    /\ UNCHANGED <<backing, load, hash_builder, written, op, arg_key, arg_val,
                   result, resizes, pre_load, panicked, counted>>

\* get_index of the naive variant: hash(key, &self.salt) % self.backing.capacity()
NaiveGetIndex ==
    /\ hashed.stage = "input"
    /\ LET r == hash(hashed.key, hashed.salt)
           fails == (r.overflowed /\ hashed.overflow_checks) \/ hashed.capacity = 0
       IN  hashed' = [hashed EXCEPT
                         !.stage = "indexed",
                         !.digest = r.val,
                         !.index = IF fails THEN 0
                                   ELSE usize_rem(r.val, hashed.capacity),
                         !.panicked = fails]
    /\ UNCHANGED <<backing, load, hash_builder, written, op, arg_key, arg_val,
                   result, resizes, pre_load, panicked, counted>>

HashNext == Hash \/ NaiveGetIndex

HashSpec == HashInit /\ [][HashNext]_vars

-----------------------------------------------------------------------------
\* What the claims speak of.

\* The key is stored somewhere in the table, whatever slot it is in.
contains_key(b, key) ==
    \E i \in 1..Len(entries_of(b)) : entries_of(b)[i][1] = key

OtherKeysKeep(key) ==
    \A k \in Keys \ {key} : get(backing', k) = get(backing, k)

IsRemoval(name) == name = "remove" \/ name = "remove_entry"

\* C1: after any sequence of inserts on a table with at least one slot, with
\* any number of resizes on the way, len() is the number of distinct keys
\* written and get of each written key returns the value last inserted for it.
C1_InsertsRetrievable ==
    /\ len(load) = Cardinality({k \in Keys : written[k] # 0})
    /\ \A k \in Keys : written[k] # 0 => get(backing, k) = Some(written[k])

\* An insert that resized a table of two chained entries and overwrote one.
C1_Witness ==
    /\ op = "insert"
    /\ resizes >= 1
    /\ result.some
    /\ result.val # arg_val
    /\ load = 2

\* C2: insert(K, V) of a key that is not in the table returns None, then
\* get(K) is V, len() is one more, and get of every other key is as before.
C2_InsertNewKey ==
    [][(op' = "insert" /\ ~contains_key(backing, arg_key')) =>
          /\ result' = None
          /\ get(backing', arg_key') = Some(arg_val')
          /\ len(load') = len(load) + 1
          /\ OtherKeysKeep(arg_key')]_vars

\* The same on every table that has at least one slot.
InsertNewKeyWithSlots ==
    [][(op' = "insert" /\ ~contains_key(backing, arg_key') /\ capacity(backing) >= 1) =>
          /\ result' = None
          /\ get(backing', arg_key') = Some(arg_val')
          /\ len(load') = len(load) + 1
          /\ OtherKeysKeep(arg_key')]_vars

\* C3: insert(K, V2) of a key that maps to V1 returns V1, then get(K) is V2,
\* len() is unchanged, and get of every other key is as before.
C3_InsertExistingKey ==
    [][\A v1 \in Vals :
          (op' = "insert" /\ get(backing, arg_key') = Some(v1)) =>
              /\ result' = Some(v1)
              /\ get(backing', arg_key') = Some(arg_val')
              /\ len(load') = len(load)
              /\ OtherKeysKeep(arg_key')]_vars

\* An insert, without a resize, that replaced a value by a different one while
\* another key was stored.
C3_Witness ==
    /\ op = "insert"
    /\ resizes = 0
    /\ result.some
    /\ result.val # arg_val
    /\ pre_load = 2
    /\ get(backing, arg_key) = Some(arg_val)

\* C4: remove(K) of a key that maps to V returns V, remove_entry(K) returns
\* (K, V); then get(K) is absent, len() is one less, capacity() is unchanged,
\* and get of every other key is as before.
C4_RemovePresentKey ==
    [][\A v \in Vals :
          (IsRemoval(op') /\ get(backing, arg_key') = Some(v)) =>
              /\ result' = IF op' = "remove" THEN Some(v) ELSE SomeEntry(arg_key', v)
              /\ get(backing', arg_key') = None
              /\ len(load') = len(load) - 1
              /\ capacity(backing') = capacity(backing)
              /\ OtherKeysKeep(arg_key')]_vars

\* A removal that took a key out of a table holding another key as well.
C4_Witness ==
    /\ IsRemoval(op)
    /\ result.some
    /\ pre_load = 2
    /\ load = 1
    /\ get(backing, arg_key) = None

\* C5: remove(K) / remove_entry(K) of a key that is not in the table returns
\* absent and leaves len, capacity, every slot and every chain as they were.
C5_RemoveAbsentKey ==
    [][(IsRemoval(op') /\ ~contains_key(backing, arg_key')) =>
          /\ result' = None
          /\ backing' = backing
          /\ load' = load]_vars

\* The same on every table that has at least one slot.
RemoveAbsentKeyWithSlots ==
    [][(IsRemoval(op') /\ ~contains_key(backing, arg_key') /\ capacity(backing) >= 1) =>
          /\ result' = None
          /\ backing' = backing
          /\ load' = load]_vars

\* C6: clear() sets len() to 0, makes every slot absent, so that get of every
\* key that was present is absent, and leaves capacity() and the hasher alone.
C6_Clear ==
    [][op' = "clear" =>
          /\ len(load') = 0
          /\ \A i \in 1..Len(backing') : backing'[i] = NoneSlot
          /\ \A k \in Keys : get(backing, k).some => get(backing', k) = None
          /\ capacity(backing') = capacity(backing)
          /\ hash_builder' = hash_builder]_vars

\* A clear of a table that held two entries.
C6_Witness ==
    /\ op = "clear"
    /\ pre_load = 2
    /\ load = 0
    /\ capacity(backing) >= 2

\* C7: load is the number of entries in the chains of all present slots.
C7_LoadIsEntryCount == load = Len(entries_of(backing))

\* A table that grew to four slots by resizing and was then emptied by removals.
C7_Witness ==
    /\ IsRemoval(op)
    /\ result.some
    /\ load = 0
    /\ capacity(backing) = 4

\* C8: no two entries of the table, in one chain or in two, have equal keys.
C8_KeysUnique ==
    \A i, j \in 1..Len(entries_of(backing)) :
        entries_of(backing)[i][1] = entries_of(backing)[j][1] => i = j

\* An insert of a key that was already stored second in a chain.
C8_Witness ==
    /\ op = "insert"
    /\ result.some
    /\ \E i \in 1..Len(backing) :
          /\ Len(backing[i].vec) >= 2
          /\ backing[i].vec[2][1] = arg_key

C10_LoadFactorBound == 10 * load <= 7 * capacity(backing)

\* C10, amended: before and after every call load is 0 or the quotient the
\* last insert of a new key tested, (load - 1) / capacity in f32, is not
\* above load_factor: the load passes the threshold by at most one entry.
C10_LoadFactorBoundByOne ==
    load >= 1 => ~f32_gt(load_ratio(load - 1, capacity(backing)), load_factor)

\* An insert that returned with load / capacity above 0.7.
C10_Witness ==
    /\ op = "insert"
    /\ resizes = 0
    /\ capacity(backing) >= 2
    /\ 10 * load > 7 * capacity(backing)

\* The fill has given the table all its fill_cap keys.
Filled == op = "insert" /\ arg_key = fill_cap - 1

\* C11, as claimed: after with_capacity(10) and inserts of keys 0..9 with
\* values 0..9, len() is 10, get(5) is 5 and capacity() is larger than it
\* was after construction.
C11_ScenarioResizes ==
    (fill_cap = TEST_CAP /\ Filled) =>
        /\ len(load) = TEST_CAP
        /\ get(backing, 5) = Some(5)
        /\ capacity(backing) > 14

\* C11, amended: len() is 10 and get(5) is 5, and no insert of the sequence
\* resizes: capacity() stays at the 14 slots of construction.
C11_ScenarioKeepsCapacity ==
    fill_cap = TEST_CAP =>
        /\ resizes = 0
        /\ capacity(backing) = 14
        /\ Filled => (len(load) = TEST_CAP /\ get(backing, 5) = Some(5))

\* with_capacity(10) after its ten inserts.
C11_Witness ==
    /\ fill_cap = TEST_CAP
    /\ Filled
    /\ load = TEST_CAP
    /\ get(backing, 5) = Some(5)
    /\ capacity(backing) = 14

\* C12: with_capacity(n), n >= 1, makes floor(n / 0.7) slots, and none of the
\* inserts of n distinct keys resizes: capacity() after the n-th insert is
\* what it was after construction.
C12_HoldsCapacityWithoutResize ==
    /\ counted.load <= counted.arg => counted.resized = 0
    /\ counted.resized = 0 =>
          /\ 7 * counted.capacity <= 10 * counted.arg
          /\ 10 * counted.arg < 7 * (counted.capacity + 1)

\* The same for the tables of the tests and of new(), slots included: the
\* backing is made of floor(n / 0.7) None slots with load 0 and the fill
\* leaves len() = n without a resize.
SmallFillsKeepCapacity ==
    /\ 7 * capacity(backing) <= 10 * fill_cap
    /\ 10 * fill_cap < 7 * (capacity(backing) + 1)
    /\ resizes = 0
    /\ op = "new" => (load = 0 /\ \A i \in 1..Len(backing) : backing[i] = NoneSlot)
    /\ Filled => len(load) = fill_cap

\* C13: every public call completes, on every table a constructor makes, for
\* every capacity argument from 0 on: none panics, and get and remove of a
\* key that was never inserted return None.
C13_OperationsTotal ==
    [][/\ ~panicked'
       /\ (op' \in {"get", "remove"} /\ written[arg_key'] = 0) => result' = None]_vars

\* C13 on the tables with at least one slot.
OperationsTotalWithSlots ==
    [][capacity(backing) >= 1 =>
          /\ ~panicked'
          /\ (op' \in {"get", "remove"} /\ written[arg_key'] = 0) => result' = None]_vars

\* C14: on a table with at least one slot an insert runs resize at most once:
\* no reinsertion inside resize resizes again.
C14_NoNestedResize == capacity(backing) >= 1 => resizes <= 1

\* An insert of a key the table has that resized, reinserted the entries and
\* replaced the value.
C14_Witness ==
    /\ op = "insert"
    /\ resizes = 1
    /\ result.some
    /\ pre_load >= 1
    /\ load = pre_load

\* Which slots are present and which key sits where in their chains.
placement(b) ==
    [i \in 1..Len(b) |->
        [present |-> b[i].present,
         keys |-> [j \in 1..Len(b[i].vec) |-> b[i].vec[j][1]]]]

\* C15: get and get_mut change nothing and never resize; a write through the
\* reference get_mut(K) returns changes neither len(), capacity(), the present
\* slots nor any key or its place, and only the value of K: get(K) then
\* returns the written value and every other key's value is as before.
C15_LookupsKeepTable ==
    [][/\ op' \in {"get", "get_mut"} =>
              /\ backing' = backing
              /\ load' = load
              /\ resizes' = 0
       /\ op' = "get_mut_write" =>
              /\ len(load') = len(load)
              /\ capacity(backing') = capacity(backing)
              /\ placement(backing') = placement(backing)
              /\ resizes' = 0
              /\ get(backing', arg_key') = Some(arg_val')
              /\ OtherKeysKeep(arg_key')]_vars

\* A write through get_mut to a key that is second in its chain.
C15_Witness ==
    /\ op = "get_mut_write"
    /\ result.some
    /\ \E i \in 1..Len(backing) :
          /\ Len(backing[i].vec) >= 2
          /\ backing[i].vec[2] = <<arg_key, arg_val>>

\* C16: after every call every stored entry (k, v) is in the chain of slot
\* digest(k) mod capacity(), also when a resize has changed capacity(); so the
\* one slot that get, get_mut and remove scan holds every key the table has.
C16_EntriesInDigestSlot ==
    /\ \A i \in 1..Len(backing) : \A j \in 1..Len(backing[i].vec) :
          hash_builder[backing[i].vec[j][1]] % Len(backing) = i - 1
    /\ \A k \in Keys : contains_key(backing, k) => get(backing, k).some

\* A resize from one slot to two has moved an entry to the second slot.
C16_Witness ==
    /\ op = "insert"
    /\ resizes = 1
    /\ capacity(backing) = 2
    /\ \E j \in 1..Len(backing[2].vec) : backing[2].vec[j][1] # arg_key

\* The slot a call's key is looked for in.
slot_of_call == get_index(backing, arg_key') + 1

\* C17: a slot goes from None to Some only in an insert, which without a
\* resize gives the slot of its key a chain of that one entry; it goes from
\* Some to None only in clear or in an insert that resizes; remove and
\* remove_entry leave every slot as present as it was, and the slot whose
\* last entry they remove Some with an empty chain; an insert of a new key
\* hashing to such a slot makes the chain that entry, returns None and adds
\* one to load.
C17_SlotPresence ==
    [][capacity(backing) >= 1 =>
          /\ \A i \in 1..Len(backing) :
                /\ (~backing[i].present /\ backing'[i].present) =>
                      /\ op' = "insert"
                      /\ Len(backing'[i].vec) >= 1
                      /\ resizes' = 0 =>
                            /\ i = slot_of_call
                            /\ backing'[i].vec = <<<<arg_key', arg_val'>>>>
                /\ (backing[i].present /\ ~backing'[i].present) =>
                      \/ op' = "clear"
                      \/ op' = "insert" /\ resizes' >= 1
          /\ IsRemoval(op') =>
                /\ \A i \in 1..Len(backing) :
                      backing'[i].present = backing[i].present
                /\ (result'.some /\ Len(backing[slot_of_call].vec) = 1) =>
                      backing'[slot_of_call] = SomeSlot(<<>>)
          /\ (/\ op' = "insert"
              /\ resizes' = 0
              /\ backing[slot_of_call] = SomeSlot(<<>>)) =>
                /\ backing'[slot_of_call].vec = <<<<arg_key', arg_val'>>>>
                /\ ~result'.some
                /\ load' = load + 1]_vars

\* A removal has emptied a chain and left its slot Some.
C17_Witness ==
    /\ IsRemoval(op)
    /\ result.some
    /\ capacity(backing) >= 1
    /\ backing[get_index(backing, arg_key) + 1] = SomeSlot(<<>>)

\* C18: in every reachable state of a table with capacity C >= 1,
\* load <= floor(0.7 * C) + 1.
C18_LoadPastThresholdByOne ==
    counted.capacity >= 1 =>
        counted.load <= (7 * counted.capacity) \div 10 + 1

\* C18 on the tables kept slot by slot, under every public operation.
SmallLoadPastThresholdByOne ==
    capacity(backing) >= 1 => load <= (7 * capacity(backing)) \div 10 + 1

\* What a lookup of the key returns, told from the calls made so far alone.
lookup_of_calls(key) == IF written[key] # 0 THEN Some(written[key]) ELSE None

count_of_calls(key) == IF written[key] # 0 THEN 1 ELSE 0

\* C19: on a table with at least one slot the return value of every call and
\* len() and capacity() after it are functions of the calls made so far, of
\* len() and of capacity(), and not of the digests: two tables constructed
\* with the same capacity and given the same calls return the same values and
\* have the same len() and capacity() after every call, whatever their hashers.
C19_HasherNotObservable ==
    [][capacity(backing) >= 1 =>
          /\ len(load') = Cardinality({k \in Keys : written'[k] # 0})
          /\ op' = "insert" =>
                /\ result' = lookup_of_calls(arg_key')
                /\ len(load') = len(load) + 1 - count_of_calls(arg_key')
                /\ capacity(backing') =
                      IF exceeds_load_factor(len(load), capacity(backing))
                      THEN 2 * capacity(backing) ELSE capacity(backing)
          /\ op' \in {"get", "get_mut", "get_mut_write"} =>
                /\ result' = lookup_of_calls(arg_key')
                /\ len(load') = len(load)
                /\ capacity(backing') = capacity(backing)
          /\ IsRemoval(op') =>
                /\ result' = IF written[arg_key'] = 0 THEN None
                             ELSE IF op' = "remove" THEN Some(written[arg_key'])
                             ELSE SomeEntry(arg_key', written[arg_key'])
                /\ len(load') = len(load) - count_of_calls(arg_key')
                /\ capacity(backing') = capacity(backing)
          /\ op' = "clear" =>
                /\ result' = None
                /\ len(load') = 0
                /\ capacity(backing') = capacity(backing)]_vars

\* A get of a key that shares its slot with another key and is not the first
\* of the chain: where keys collide is what the hasher decides.
C19_Witness ==
    /\ op = "get"
    /\ result.some
    /\ \E i \in 1..Len(backing) :
          /\ Len(backing[i].vec) >= 2
          /\ backing[i].vec[2][1] = arg_key

\* The sum the claim gives: byte i of the key, counted from 0, shifted left by
\* 1 when i is even and by 2 when i is odd.
RECURSIVE shifted_sum(_, _)
shifted_sum(key, n) ==
    IF n = 0 THEN 0
    ELSE shifted_sum(key, n - 1) + key[n] * (IF (n - 1) % 2 = 0 THEN 2 ELSE 4)

\* The salt, or 0 without one, plus that sum: 64 bits and the carry beyond them.
claimed_digest ==
    usize_add(IF hashed.salt.some THEN hashed.salt.val ELSE usize_of(0),
              usize_of(shifted_sum(hashed.key, Len(hashed.key))))

====
